---------------------------- MODULE Spec2Model ----------------------------
(***************************************************************************)
(* A model of the OCR relay (src/routes/api/ocr/+server.ts) and of the     *)
(* offline cache router (src/service-worker.ts).                           *)
(*                                                                         *)
(* Text is a sequence of one-character strings.  The protocol strings of   *)
(* the upstream stream ("data:", "data: [DONE]") are spelled out character *)
(* by character; a JSON document is written in a reduced grammar:          *)
(*     "{" c1 ... cn "}"   a document whose choices[0].delta.content is the *)
(*                         text c1...cn ("{}" has no delta content),       *)
(* and every other payload is text JSON.parse rejects.                     *)
(***************************************************************************)
EXTENDS Naturals, Sequences, FiniteSets, TLC

\* Bounds of the model.
MaxLines == 2
MaxHandlers == 2
MaxCalls == 2

VARIABLES
    rpc,         \* position of the POST handler / of the stream's start()
    reqBody,     \* the JSON value request.json() resolves with
    fetches,     \* upstream fetch calls issued by the handler
    api,         \* apiResponse
    transcript,  \* the bytes of the upstream body
    pos,         \* how many of them reader.read() has delivered
    decoder,     \* bytes the TextDecoder holds back between decode calls
    buffer,      \* let buffer
    streamDone,  \* let streamDone
    out,         \* the chunks enqueued on the controller, in order
    closes,      \* calls of controller.close()
    thrown,      \* an exception is propagating out of the try block
    result,      \* the argument and the value of the last processBuffer call
    resp,        \* the Response the handler returned
    reader,      \* the reader of apiResponse.body: none, locked (body not
                 \* read to its end), ended, errored
    installed,   \* the service worker's install event is over
    activation,  \* where the activate listener stands
    keys,        \* what its caches.keys() resolved with
    stores,      \* the names of the cache stores that exist
    old,         \* a fetch handler of the superseded worker
    showCamera,       \* let showCamera
    isCameraLoading,  \* let isCameraLoading
    videoStream,      \* let videoStream: null or a MediaStream
    live,             \* the MediaStreams whose tracks have not been stopped
    calls,            \* per call of handleTakePhoto: where its startCamera stands
    capturing,        \* a capturePhoto is suspended before its stopCamera
    hs,          \* per fetch event: its request and where its handler stands
    cache,       \* the entries of the store CACHE_NAME, by URL
    puts         \* cache.put calls issued and not yet written

rvars == <<rpc, reqBody, fetches, api, transcript, pos, decoder, buffer,
           streamDone, out, closes, thrown, result, resp, reader>>

lifecycle == <<installed, activation, keys, stores, old>>
swvars == <<lifecycle, hs, cache, puts>>

camvars == <<showCamera, isCameraLoading, videoStream, live, calls, capturing>>

vars == <<rvars, swvars, camvars>>

-----------------------------------------------------------------------------
(* Text helpers *)

LF == "\n"
CR == "\r"
Whitespace == {" ", "\t", CR, LF}

RECURSIVE TrimStart(_)
TrimStart(s) ==
    IF s /= <<>> /\ Head(s) \in Whitespace THEN TrimStart(Tail(s)) ELSE s

RECURSIVE TrimEnd(_)
TrimEnd(s) ==
    IF s /= <<>> /\ s[Len(s)] \in Whitespace
    THEN TrimEnd(SubSeq(s, 1, Len(s) - 1)) ELSE s

\* String.prototype.trim
Trim(s) == TrimEnd(TrimStart(s))

\* String.prototype.startsWith
StartsWith(s, p) == Len(s) >= Len(p) /\ SubSeq(s, 1, Len(p)) = p

\* String.prototype.slice(n)
Slice(s, n) == SubSeq(s, n + 1, Len(s))

\* The regular expression /\r?\n/ matched at the end of cur followed by LF:
\* one CR before the LF belongs to the separator.
StripCR(cur) ==
    IF cur /= <<>> /\ cur[Len(cur)] = CR THEN SubSeq(cur, 1, Len(cur) - 1) ELSE cur

RECURSIVE SplitFrom(_, _)
SplitFrom(s, cur) ==
    IF s = <<>> THEN <<cur>>
    ELSE IF Head(s) = LF THEN <<StripCR(cur)>> \o SplitFrom(Tail(s), <<>>)
    ELSE SplitFrom(Tail(s), Append(cur, Head(s)))

\* buffer.split(/\r?\n/): never empty, its last element is the text after the
\* last separator.
SplitLines(s) == SplitFrom(s, <<>>)

RECURSIVE Concat(_)
Concat(ss) == IF ss = <<>> THEN <<>> ELSE Head(ss) \o Concat(Tail(ss))

-----------------------------------------------------------------------------
(* TextDecoder / TextEncoder (UTF-8).  Every byte below 0x80 is the character
   of the same name; the bytes 0xC3 0xA9 are the one character U+00E9. *)

LeadByte == "0xC3"
ContByte == "0xA9"
UE9 == "U+00E9"
UFFFD == "U+FFFD"

\* decoder.decode(value, { stream: true }): an incomplete sequence at the end
\* of value is held back for the next call; a malformed one decodes to U+FFFD.
RECURSIVE DecodeFrom(_, _, _)
DecodeFrom(bytes, pend, acc) ==
    IF bytes = <<>> THEN [text |-> acc, pending |-> pend]
    ELSE LET b == Head(bytes) IN
         IF pend = <<>>
         THEN IF b = LeadByte THEN DecodeFrom(Tail(bytes), <<b>>, acc)
              ELSE IF b = ContByte
                   THEN DecodeFrom(Tail(bytes), <<>>, Append(acc, UFFFD))
                   ELSE DecodeFrom(Tail(bytes), <<>>, Append(acc, b))
         ELSE IF b = ContByte
              THEN DecodeFrom(Tail(bytes), <<>>, Append(acc, UE9))
              ELSE DecodeFrom(bytes, <<>>, Append(acc, UFFFD))

Decode(pend, bytes) == DecodeFrom(bytes, pend, <<>>)

\* encoder.encode(chunk)
RECURSIVE Encode(_)
Encode(text) ==
    IF text = <<>> THEN <<>>
    ELSE LET c == Head(text) IN
         (IF c = UE9 THEN <<LeadByte, ContByte>>
          ELSE IF c = UFFFD THEN <<"0xEF", "0xBF", "0xBD">>
          ELSE <<c>>) \o Encode(Tail(text))

\* The chunks enqueued last first.
EncodeAllReversed(chunks) ==
    [i \in 1..Len(chunks) |-> Encode(chunks[Len(chunks) + 1 - i])]

EncodeAll(chunks) == [i \in 1..Len(chunks) |-> Encode(chunks[i])]

-----------------------------------------------------------------------------
(* processBuffer *)

DataPrefix == <<"d", "a", "t", "a", ":">>
DoneLine == DataPrefix \o <<" ", "[", "D", "O", "N", "E", "]">>
ContentChars == {"h", UE9}

\* JSON.parse(payload) returns (does not throw).
JsonParses(payload) ==
    /\ Len(payload) >= 2
    /\ payload[1] = "{"
    /\ payload[Len(payload)] = "}"
    /\ \A i \in 2..(Len(payload) - 1) : payload[i] \in ContentChars

\* json?.choices?.[0]?.delta?.content ?? ''
DeltaContent(payload) == SubSeq(payload, 2, Len(payload) - 1)

\* The body of the for loop over the lines, on the accumulated
\* [chunks, done].
LineStep(acc, line) ==
    LET trimmed == Trim(line) IN
    IF trimmed = <<>> THEN acc
    ELSE IF trimmed = DoneLine THEN [acc EXCEPT !.done = TRUE]
    ELSE IF ~StartsWith(trimmed, DataPrefix) THEN acc
    ELSE LET payload == Trim(Slice(trimmed, Len(DataPrefix))) IN
         IF ~JsonParses(payload) THEN acc
         ELSE LET delta == DeltaContent(payload) IN
              IF delta /= <<>>
              THEN [acc EXCEPT !.chunks = Append(@, delta)]
              ELSE acc

\* A loop that a payload JSON.parse rejects ends (no try/catch around it).
RECURSIVE ForLinesAbort(_, _)
ForLinesAbort(lines, acc) ==
    IF lines = <<>> THEN acc
    ELSE LET t == Trim(Head(lines)) IN
         IF /\ t /= DoneLine
            /\ StartsWith(t, DataPrefix)
            /\ ~JsonParses(Trim(Slice(t, Len(DataPrefix))))
         THEN acc
         ELSE ForLinesAbort(Tail(lines), LineStep(acc, Head(lines)))

RECURSIVE ForLines(_, _)
ForLines(lines, acc) ==
    IF lines = <<>> THEN acc
    ELSE ForLines(Tail(lines), LineStep(acc, Head(lines)))

\* A decode that hands the whole input back as the remainder.
processBufferNoHoldback(buf, flush) ==
    LET lines == SplitLines(buf)
        used == IF flush THEN lines ELSE SubSeq(lines, 1, Len(lines) - 1)
        acc == ForLines(used, [chunks |-> <<>>, done |-> FALSE])
    IN [buffer |-> IF flush THEN <<>> ELSE buf,
        chunks |-> acc.chunks,
        done |-> acc.done]

processBuffer(buf, flush) ==
    LET lines == SplitLines(buf)
        remainder == IF flush THEN <<>> ELSE lines[Len(lines)]
        used == IF flush THEN lines ELSE SubSeq(lines, 1, Len(lines) - 1)
        acc == ForLines(used, [chunks |-> <<>>, done |-> FALSE])
    IN [buffer |-> IF flush THEN <<>> ELSE remainder,
        chunks |-> acc.chunks,
        done |-> acc.done]

-----------------------------------------------------------------------------
(* The upstream body: up to MaxLines lines of the upstream protocol, joined by
   one line terminator, the last line terminated or not. *)

RecH == DataPrefix \o <<" ", "{", "h", "}">>
RecE == DataPrefix \o <<"{", LeadByte, ContByte, "}">>
Malformed == DataPrefix \o <<" ", "{", "h">>
Blank == <<" ">>
NoPrefix == <<"{", "h", "}">>
LineKinds == {RecH, RecE, DoneLine, Malformed, Blank, NoPrefix}
Eols == {<<LF>>, <<CR, LF>>}

RECURSIVE Join(_, _, _)
Join(lines, eol, terminated) ==
    IF lines = <<>> THEN <<>>
    ELSE IF Len(lines) = 1
         THEN Head(lines) \o (IF terminated THEN eol ELSE <<>>)
         ELSE Head(lines) \o eol \o Join(Tail(lines), eol, terminated)

Transcripts ==
    {Join(ls, eol, t) : ls \in UNION {[1..n -> LineKinds] : n \in 0..MaxLines},
                        eol \in Eols, t \in BOOLEAN}

-----------------------------------------------------------------------------
(* POST *)

Undefined == [type |-> "undefined", truthy |-> FALSE]
\* The values a JSON body gives the name base64, by typeof and truthiness:
\* undefined, "", a non-empty string, 0, a non-zero number, null, an object
\* or array, false, true.
Base64Values ==
    {Undefined} \cup
    [type : {"string", "number", "object", "boolean"}, truthy : BOOLEAN]

\* What request.json() gives: an object with or without the property, a
\* primitive (number, string, boolean), null, or a rejection on a body that
\* is not JSON.
Bodies ==
    [kind : {"object"}, base64 : Base64Values] \cup
    [kind : {"primitive", "null", "unparsable"}, base64 : {Undefined}]

NoBody == [kind |-> "none", base64 |-> Undefined]

NullBodyStatus == {204, 205, 304}
ApiStatuses == {200, 204, 401, 500}
\* The upstream responses: a status, whether response.body is non-null, and
\* whether the body is a JSON document (an error report; the body of a
\* success is the event stream, which is not one).
ApiResponses ==
    {r \in [status : ApiStatuses, hasBody : BOOLEAN, json : BOOLEAN] :
        /\ r.status \in NullBodyStatus => ~r.hasBody
        /\ r.json => r.hasBody /\ r.status \notin 200..299}
NoApi == [status |-> 0, hasBody |-> FALSE, json |-> FALSE]

\* Response.ok
Ok(r) == r.status \in 200..299

\* safeJson: the parsed body, or null when json() throws.
safeJson(r) == IF r.json THEN "upstream" ELSE "null"

NoResp == [status |-> 0, ctype |-> "", body |-> ""]
NoResult == [fed |-> <<>>, flush |-> FALSE, chunks |-> <<>>, done |-> FALSE]

JsonResponse(status, error) ==
    [status |-> status, ctype |-> "application/json", body |-> error]

\* The test without its typeof.
InvalidBase64Falsy(b) == ~b.truthy

InvalidBase64(b) == ~b.truthy \/ b.type /= "string"

\* One turn of the while loop on the bytes reader.read() gave (lines 65-71):
\* the decoder's held-back bytes, the new buffer, the chunks to enqueue and
\* streamDone; fed is the text handed to processBuffer.
Feed(pend, buf, bytes) ==
    LET d == Decode(pend, bytes)
        fed == buf \o d.text
        r == processBuffer(fed, FALSE)
    IN [pending |-> d.pending, fed |-> fed, buffer |-> r.buffer,
        chunks |-> r.chunks, done |-> r.done]

\* The test without its !streamDone.
NeedsFlushIgnoringDone(buf, done) == Trim(buf) /= <<>>

\* if (!streamDone && buffer.trim().length) (line 73)
NeedsFlush(buf, done) == ~done /\ Trim(buf) /= <<>>

\* Lines 73-78: the chunks the flush decode enqueues after the loop.
FlushChunks(buf, done) ==
    IF NeedsFlush(buf, done) THEN processBuffer(buf, TRUE).chunks ELSE <<>>

RelayInit ==
    /\ rpc = "idle"
    /\ reqBody = NoBody
    /\ fetches = 0
    /\ api = NoApi
    /\ transcript = <<>>
    /\ pos = 0
    /\ decoder = <<>>
    /\ buffer = <<>>
    /\ streamDone = FALSE
    /\ out = <<>>
    /\ closes = 0
    /\ thrown = FALSE
    /\ result = NoResult
    /\ resp = NoResp
    /\ reader = "none"

\* POST up to its first await of the upstream fetch (lines 4-42).
Post(body) ==
    /\ UNCHANGED <<swvars, camvars, reader>>
    /\ rpc = "idle"
    /\ reqBody' = body
    /\ IF body.kind \in {"unparsable", "null"}
       THEN \* request.json() rejects, or destructuring null throws
            /\ rpc' = "threw"
            /\ UNCHANGED <<fetches, resp>>
       ELSE IF InvalidBase64(body.base64)
       THEN /\ resp' = JsonResponse(400, "Missing or invalid base64 string.")
            /\ rpc' = "done"
            /\ UNCHANGED fetches
       ELSE /\ fetches' = fetches + 1
            /\ rpc' = "fetching"
            /\ UNCHANGED resp
    /\ UNCHANGED <<api, transcript, pos, decoder, buffer, streamDone, out,
                   closes, thrown, result>>

\* The upstream fetch resolves with a response whose body is t (lines 44-89).
FetchResolve(r, t) ==
    /\ UNCHANGED <<swvars, camvars>>
    /\ rpc = "fetching"
    /\ api' = r
    /\ IF ~Ok(r) \/ ~r.hasBody
       THEN /\ IF r.status \in NullBodyStatus
               THEN \* new Response(body, { status }) throws on a null body status
                    /\ rpc' = "threw"
                    /\ UNCHANGED resp
               ELSE /\ resp' = JsonResponse(r.status,
                                   IF safeJson(r) = "null"
                                   THEN "Upstream request failed."
                                   ELSE safeJson(r))
                    /\ rpc' = "done"
            /\ UNCHANGED transcript
       ELSE /\ transcript' = t
            /\ resp' = [status |-> 200, ctype |-> "text/plain; charset=utf-8",
                        body |-> "stream"]
            /\ rpc' = "reading"
    /\ reader' = IF ~Ok(r) \/ ~r.hasBody THEN reader ELSE "locked"
    /\ UNCHANGED <<reqBody, fetches, pos, decoder, buffer, streamDone, out,
                   closes, thrown, result>>

\* The upstream fetch rejects (no connection): the await throws out of POST.
FetchReject ==
    /\ UNCHANGED <<swvars, camvars, reader>>
    /\ rpc = "fetching"
    /\ rpc' = "threw"
    /\ UNCHANGED <<reqBody, fetches, api, transcript, pos, decoder, buffer,
                   streamDone, out, closes, thrown, result, resp>>

\* One turn of the while loop: reader.read() gives the next n bytes (lines
\* 63-71).  With streamDone set the loop ends and lines 73-78 follow.
ReadChunk(n) ==
    /\ UNCHANGED <<swvars, camvars, reader>>
    /\ rpc = "reading"
    /\ pos + n <= Len(transcript)
    /\ LET r == Feed(decoder, buffer, SubSeq(transcript, pos + 1, pos + n))
       IN /\ decoder' = r.pending
          /\ buffer' = r.buffer
          /\ out' = out \o EncodeAll(r.chunks) \o
                    (IF r.done THEN EncodeAll(FlushChunks(r.buffer, r.done))
                     ELSE <<>>)
          /\ streamDone' = r.done
          /\ result' = [fed |-> r.fed, flush |-> FALSE, chunks |-> r.chunks,
                        done |-> r.done]
          /\ rpc' = IF r.done THEN "finally" ELSE "reading"
    /\ pos' = pos + n
    /\ UNCHANGED <<reqBody, fetches, api, transcript, closes, thrown, resp>>

\* reader.read() gives done: break, then the flush decode of a remainder
\* that is not blank (lines 64, 73-78).  buffer keeps the remainder.
ReadDone ==
    /\ UNCHANGED <<swvars, camvars>>
    /\ rpc = "reading"
    /\ pos = Len(transcript)
    /\ reader' = "ended"
    /\ out' = out \o EncodeAll(FlushChunks(buffer, streamDone))
    /\ result' = IF NeedsFlush(buffer, streamDone)
                 THEN [fed |-> buffer, flush |-> TRUE,
                       chunks |-> processBuffer(buffer, TRUE).chunks,
                       done |-> processBuffer(buffer, TRUE).done]
                 ELSE result
    /\ rpc' = "finally"
    /\ UNCHANGED <<reqBody, fetches, api, transcript, pos, decoder, buffer,
                   streamDone, closes, thrown, resp>>

\* reader.read() rejects: the upstream connection broke mid-stream.
ReadThrow ==
    /\ UNCHANGED <<swvars, camvars>>
    /\ rpc = "reading"
    /\ reader' = "errored"
    /\ thrown' = TRUE
    /\ rpc' = "finally"
    /\ UNCHANGED <<reqBody, fetches, api, transcript, pos, decoder, buffer,
                   streamDone, out, closes, result, resp>>

\* A close after the try block instead of in a finally: skipped when the block
\* throws.
FinallySkippedOnThrow ==
    /\ UNCHANGED <<swvars, camvars, reader>>
    /\ rpc = "finally"
    /\ closes' = IF thrown THEN closes ELSE closes + 1
    /\ rpc' = "done"
    /\ UNCHANGED <<reqBody, fetches, api, transcript, pos, decoder, buffer,
                   streamDone, out, thrown, result, resp>>

\* finally { controller.close() } (lines 79-81).
Finally ==
    /\ UNCHANGED <<swvars, camvars, reader>>
    /\ rpc = "finally"
    /\ closes' = closes + 1
    /\ rpc' = "done"
    /\ UNCHANGED <<reqBody, fetches, api, transcript, pos, decoder, buffer,
                   streamDone, out, thrown, result, resp>>

RelayNext ==
    \/ rpc = "idle" /\ \E b \in Bodies : Post(b)
    \/ rpc = "fetching" /\ \E r \in ApiResponses, t \in Transcripts : FetchResolve(r, t)
    \/ FetchReject
    \/ rpc = "reading" /\ \E n \in 1..(Len(transcript) - pos) : ReadChunk(n)
    \/ ReadDone
    \/ ReadThrow
    \/ Finally

-----------------------------------------------------------------------------
(* The service worker (src/service-worker.ts) *)

Handlers == 1..MaxHandlers

\* sw.location.origin and the URLs requests are made for: a build asset, the
\* application root, another page of the application, a resource of another
\* origin, and a URL that is neither http nor https.
AppOrigin == "https://app"
AssetUrl == "https://app/_app/immutable/app.js"
RootUrl == "https://app/"
PageUrl == "https://app/page"
ExtUrl == "https://cdn/lib.js"
BlobUrl == "blob:https://app/1"
Urls == {AssetUrl, RootUrl, PageUrl, ExtUrl, BlobUrl}

\* new URL(request.url).protocol and .origin
Protocol(u) == IF u = BlobUrl THEN "blob:" ELSE "https:"
Origin(u) ==
    IF u \in {AssetUrl, RootUrl, PageUrl} THEN AppOrigin
    ELSE IF u = ExtUrl THEN "https://cdn" ELSE "null"

ASSET_URL_SET == {AssetUrl}

\* The fetch events: every GET without a range header for the four http(s)
\* URLs, as a navigation or not, and one request for each way of failing the
\* listener's tests (another method, a range header, another scheme).
Requests ==
    [method : {"GET"}, range : {FALSE}, url : Urls \ {BlobUrl},
     mode : {"navigate", "no-cors"}]
    \cup {[method |-> "POST", range |-> FALSE, url |-> PageUrl, mode |-> "cors"],
          [method |-> "GET", range |-> TRUE, url |-> AssetUrl, mode |-> "no-cors"],
          [method |-> "GET", range |-> FALSE, url |-> BlobUrl, mode |-> "no-cors"]}
NoRequest == [method |-> "", range |-> FALSE, url |-> "", mode |-> ""]

\* A response: the URL it answers, the fetch that produced it (0: the
\* install's cache.addAll; h: a fetch of handler h), response.ok, and whether
\* it is Response.error().
NoResponse == [kind |-> "none", url |-> "", by |-> 0, ok |-> FALSE]
NetResponse(u, h, ok) == [kind |-> "basic", url |-> u, by |-> h, ok |-> ok]
ErrorResponse == [kind |-> "error", url |-> "", by |-> 0, ok |-> FALSE]

\* prior: for a request of a manifest asset, the fetch events that were over
\* when this one was dispatched.
IdleHandler ==
    [pc |-> "idle", req |-> NoRequest, strategy |-> "none", hit |-> FALSE,
     fetches |-> 0, fails |-> 0, reads |-> 0, puts |-> 0, resp |-> NoResponse,
     prior |-> {}]

\* Where a handler stands once its event is over.
OverPcs == {"done", "failed", "passthrough"}

\* `freeocr-cache-${version}` (line 11) of this build and of the build it
\* supersedes.
CACHE_NAME == "freeocr-cache-2"
OLD_CACHE_NAME == "freeocr-cache-1"

\* A worker installed over a previous deployment, whose store exists.
WorkerInit ==
    /\ installed = FALSE
    /\ activation = "none"
    /\ keys = {}
    /\ stores = {OLD_CACHE_NAME}
    /\ old = "none"
    /\ hs = [h \in Handlers |-> IdleHandler]
    /\ cache = [u \in Urls |-> NoResponse]
    /\ puts = {}

\* The install listener (lines 14-22): caches.open(CACHE_NAME) creates the
\* store, cache.addAll(ASSET_URLS) stores every asset or, failing, none.
Install(primed) ==
    /\ UNCHANGED <<rvars, camvars>>
    /\ ~installed
    /\ installed' = TRUE
    /\ stores' = stores \cup {CACHE_NAME}
    /\ UNCHANGED <<activation, keys, old>>
    /\ cache' = [u \in Urls |->
                   IF primed /\ u \in ASSET_URL_SET THEN NetResponse(u, 0, TRUE)
                   ELSE cache[u]]
    /\ UNCHANGED <<hs, puts>>

\* The activate listener up to the resolution of caches.keys() (line 26).
ActivateKeys ==
    /\ UNCHANGED <<rvars, camvars>>
    /\ installed
    /\ activation = "none"
    /\ activation' = "keys"
    /\ keys' = stores
    /\ UNCHANGED <<installed, stores, old, hs, cache, puts>>

\* Lines 27-33: every listed store but CACHE_NAME is deleted, and the
\* activation is over.
ActivateDelete ==
    /\ UNCHANGED <<rvars, camvars>>
    /\ activation = "keys"
    /\ activation' = "done"
    /\ stores' = stores \ {key \in keys : key /= CACHE_NAME}
    /\ UNCHANGED <<installed, keys, old, hs, cache, puts>>

\* The superseded worker runs this file with its own version: while it is
\* the active worker it takes a fetch event and calls
\* caches.open(CACHE_NAME), with its CACHE_NAME (lines 37-64, 76, 98).
OldDispatch ==
    /\ UNCHANGED <<rvars, camvars>>
    /\ activation = "none"
    /\ old = "none"
    /\ old' = "open"
    /\ UNCHANGED <<installed, activation, keys, stores, hs, cache, puts>>

\* Its caches.open takes effect: the store exists from then on, created if
\* it did not exist.
OldOpen ==
    /\ UNCHANGED <<rvars, camvars>>
    /\ old = "open"
    /\ old' = "opened"
    /\ stores' = stores \cup {OLD_CACHE_NAME}
    /\ UNCHANGED <<installed, activation, keys, hs, cache, puts>>

\* The listener's tests (lines 40-48): a GET, no range header, http or https.
InterceptedIgnoringRange(req) ==
    /\ req.method = "GET"
    /\ Protocol(req.url) \in {"https:", "http:"}

Intercepted(req) ==
    /\ ~(req.method /= "GET" \/ req.range)
    /\ ~(Protocol(req.url) /= "https:" /\ Protocol(req.url) /= "http:")

\* The navigation test put before the manifest test.
ClassifyNavigationFirst(req) ==
    IF req.mode = "navigate" /\ Origin(req.url) = AppOrigin
    THEN "networkFirst"
    ELSE IF req.url \in ASSET_URL_SET THEN "cacheFirst"
         ELSE "staleWhileRevalidate"

\* Lines 50-60.
Classify(req) ==
    IF req.url \in ASSET_URL_SET THEN "cacheFirst"
    ELSE IF req.mode = "navigate" /\ Origin(req.url) = AppOrigin
         THEN "networkFirst"
         ELSE "staleWhileRevalidate"

\* The fetch listener (lines 37-61) and the strategy up to the end of its
\* await caches.open(CACHE_NAME).  Events take the handlers in index order.
Dispatch(h, req) ==
    /\ UNCHANGED <<rvars, camvars>>
    /\ activation = "done"
    /\ hs[h].pc = "idle"
    /\ \A g \in Handlers : g < h => hs[g].pc /= "idle"
    /\ hs' = [hs EXCEPT ![h] =
                LET prior == IF req.url \in ASSET_URL_SET
                             THEN {g \in Handlers : hs[g].pc \in OverPcs}
                             ELSE {} IN
                IF ~Intercepted(req)
                THEN [@ EXCEPT !.pc = "passthrough", !.req = req]
                ELSE [@ EXCEPT !.pc = "open", !.req = req,
                               !.strategy = Classify(req), !.prior = prior]]
    /\ UNCHANGED <<lifecycle, cache, puts>>

\* caches.open resolved.  cacheFirst and staleWhileRevalidate go on to
\* cache.match (lines 65, 99); networkFirst calls fetchWithTimeout (line 79).
Open(h) ==
    /\ UNCHANGED <<rvars, camvars>>
    /\ hs[h].pc = "open"
    /\ hs' = [hs EXCEPT ![h] =
                IF @.strategy = "networkFirst"
                THEN [@ EXCEPT !.pc = "nf_fetch", !.fetches = @ + 1]
                ELSE [@ EXCEPT !.pc = "match"]]
    /\ stores' = stores \cup {CACHE_NAME}
    /\ UNCHANGED <<installed, activation, keys, old, cache, puts>>

\* cache.match(request) resolved in cacheFirst (lines 65-70) or in
\* staleWhileRevalidate (lines 99-109), which starts its fetch either way.
Match(h) ==
    /\ UNCHANGED <<rvars, camvars>>
    /\ hs[h].pc = "match"
    /\ LET cached == cache[hs[h].req.url]
           found == cached /= NoResponse
       IN hs' = [hs EXCEPT ![h] =
                IF @.strategy = "cacheFirst"
                THEN IF found
                     THEN [@ EXCEPT !.pc = "done", !.reads = @ + 1,
                                    !.hit = TRUE, !.resp = cached]
                     ELSE [@ EXCEPT !.pc = "cf_fetch", !.reads = @ + 1,
                                    !.fetches = @ + 1]
                ELSE IF found
                     THEN [@ EXCEPT !.pc = "swr_background", !.reads = @ + 1,
                                    !.fetches = @ + 1, !.hit = TRUE,
                                    !.resp = cached]
                     ELSE [@ EXCEPT !.pc = "swr_wait", !.reads = @ + 1,
                                    !.fetches = @ + 1]]
    /\ UNCHANGED <<lifecycle, cache, puts>>

FetchPcs == {"cf_fetch", "nf_fetch", "swr_background", "swr_wait", "swr_last"}

\* A fetch of handler h resolves with a response (ok or not).  Lines 70-72,
\* 79-81, 101-104 put a clone and pass the response on; the fetch of line 116
\* is returned as it is.
NetResolve(h, ok) ==
    /\ UNCHANGED <<rvars, camvars>>
    /\ hs[h].pc \in FetchPcs
    /\ LET r == NetResponse(hs[h].req.url, h, ok) IN
       /\ hs' = [hs EXCEPT ![h] =
                   IF @.pc = "swr_last"
                   THEN [@ EXCEPT !.pc = "done", !.resp = r]
                   ELSE IF @.pc = "swr_background"
                   THEN [@ EXCEPT !.pc = "done", !.puts = @ + 1]
                   ELSE [@ EXCEPT !.pc = "done", !.puts = @ + 1, !.resp = r]]
       /\ puts' = IF hs[h].pc = "swr_last" THEN puts ELSE puts \cup {r}
    /\ UNCHANGED <<lifecycle, cache>>

\* A fetch that is tried again when it rejects.
NetRejectRetrying(h) ==
    /\ UNCHANGED <<rvars, camvars>>
    /\ hs[h].pc \in FetchPcs
    /\ hs[h].fetches < 3
    /\ hs' = [hs EXCEPT ![h] = [@ EXCEPT !.fails = @ + 1, !.fetches = @ + 1]]
    /\ UNCHANGED <<lifecycle, cache, puts>>

\* A background fetch whose rejection reaches the caller.
NetRejectPropagating(h) ==
    /\ UNCHANGED <<rvars, camvars>>
    /\ hs[h].pc \in FetchPcs
    /\ hs' = [hs EXCEPT ![h] =
                IF @.pc \in {"cf_fetch", "swr_last", "swr_background"}
                THEN [@ EXCEPT !.pc = "failed", !.fails = @ + 1,
                               !.resp = NoResponse]
                ELSE IF @.pc = "nf_fetch"
                THEN [@ EXCEPT !.pc = "nf_match", !.fails = @ + 1]
                ELSE [@ EXCEPT !.pc = "swr_last", !.fails = @ + 1,
                               !.fetches = @ + 1]]
    /\ UNCHANGED <<lifecycle, cache, puts>>

\* A fetch of handler h rejects.  cacheFirst lets it propagate (line 70),
\* networkFirst falls back to the cache (line 82), staleWhileRevalidate
\* swallows it (line 105) and, with nothing cached, fetches again (line 116),
\* whose rejection propagates.
NetReject(h) ==
    /\ UNCHANGED <<rvars, camvars>>
    /\ hs[h].pc \in FetchPcs
    /\ hs' = [hs EXCEPT ![h] =
                IF @.pc \in {"cf_fetch", "swr_last"}
                THEN [@ EXCEPT !.pc = "failed", !.fails = @ + 1]
                ELSE IF @.pc = "nf_fetch"
                THEN [@ EXCEPT !.pc = "nf_match", !.fails = @ + 1]
                ELSE IF @.pc = "swr_background"
                THEN [@ EXCEPT !.pc = "done", !.fails = @ + 1]
                ELSE [@ EXCEPT !.pc = "swr_last", !.fails = @ + 1,
                               !.fetches = @ + 1]]
    /\ UNCHANGED <<lifecycle, cache, puts>>

\* fetchWithTimeout (lines 119-128): the timer fires, the abort makes the
\* fetch reject.
Timeout(h) ==
    /\ UNCHANGED <<rvars, camvars>>
    /\ hs[h].pc = "nf_fetch"
    /\ hs' = [hs EXCEPT ![h] = [@ EXCEPT !.pc = "nf_match", !.fails = @ + 1]]
    /\ UNCHANGED <<lifecycle, cache, puts>>

\* A fallback that goes to the root entry without a look at the entry of
\* the request.
FallbackMatchSkipped(h) ==
    /\ UNCHANGED <<rvars, camvars>>
    /\ hs[h].pc = "nf_match"
    /\ hs' = [hs EXCEPT ![h] = [@ EXCEPT !.pc = "nf_root"]]
    /\ UNCHANGED <<lifecycle, cache, puts>>

\* networkFirst's fallback (lines 83-86): the entry of this request.
FallbackMatch(h) ==
    /\ UNCHANGED <<rvars, camvars>>
    /\ hs[h].pc = "nf_match"
    /\ LET fallback == cache[hs[h].req.url] IN
       hs' = [hs EXCEPT ![h] =
                IF fallback /= NoResponse
                THEN [@ EXCEPT !.pc = "done", !.reads = @ + 1,
                               !.resp = fallback]
                ELSE [@ EXCEPT !.pc = "nf_root", !.reads = @ + 1]]
    /\ UNCHANGED <<lifecycle, cache, puts>>

\* Lines 88-93: the entry of the root path, or Response.error().
FallbackRoot(h) ==
    /\ UNCHANGED <<rvars, camvars>>
    /\ hs[h].pc = "nf_root"
    /\ LET offline == cache[RootUrl] IN
       hs' = [hs EXCEPT ![h] =
                [@ EXCEPT !.pc = "done", !.reads = @ + 1,
                          !.resp = IF offline /= NoResponse THEN offline
                                   ELSE ErrorResponse]]
    /\ UNCHANGED <<lifecycle, cache, puts>>

\* A cache.put that is given up without a write.
PutCompleteDropped(r) ==
    /\ UNCHANGED <<rvars, camvars>>
    /\ r \in puts
    /\ puts' = puts \ {r}
    /\ UNCHANGED <<lifecycle, hs, cache>>

\* A cache.put that was issued is written.
PutComplete(r) ==
    /\ UNCHANGED <<rvars, camvars>>
    /\ r \in puts
    /\ cache' = [cache EXCEPT ![r.url] = r]
    /\ puts' = puts \ {r}
    /\ UNCHANGED <<lifecycle, hs>>

WorkerNext ==
    \/ \E primed \in BOOLEAN : Install(primed)
    \/ ActivateKeys
    \/ ActivateDelete
    \/ \E h \in Handlers : activation = "done" /\ hs[h].pc = "idle" /\ \E req \in Requests : Dispatch(h, req)
    \/ \E h \in Handlers : Open(h)
    \/ \E h \in Handlers : Match(h)
    \/ \E h \in Handlers, ok \in BOOLEAN : NetResolve(h, ok)
    \/ \E h \in Handlers : NetReject(h)
    \/ \E h \in Handlers : Timeout(h)
    \/ \E h \in Handlers : FallbackMatch(h)
    \/ \E h \in Handlers : FallbackRoot(h)
    \/ \E r \in puts : PutComplete(r)

-----------------------------------------------------------------------------
(* The camera overlay of the page component (lines 357-457) *)

Calls == 1..MaxCalls
NoStream == 0

\* The constraints startCamera tries in turn (lines 386-390).
constraintOptions == <<"ideal environment", "environment", "any">>

IdleCall == [pc |-> "idle", attempt |-> 0]

CameraInit ==
    /\ showCamera = FALSE
    /\ isCameraLoading = FALSE
    /\ videoStream = NoStream
    /\ live = {}
    /\ calls = [c \in Calls |-> IdleCall]
    /\ capturing = FALSE

\* bind:this={videoElement} inside {#if showCamera} (lines 663-668): the
\* element is bound while the overlay is rendered.
videoElement == showCamera

\* stopCamera (lines 418-430).
stopCamera ==
    /\ live' = live \ {videoStream}
    /\ videoStream' = NoStream
    /\ showCamera' = FALSE
    /\ isCameraLoading' = FALSE

\* handleTakePhoto and startCamera up to the first getUserMedia (lines
\* 357-396), on a device with a camera API in a secure context; await tick()
\* resumes before any other event is handled.  Calls are numbered in the
\* order they are made.
TakePhoto(c) ==
    /\ UNCHANGED <<rvars, swvars>>
    /\ calls[c].pc = "idle"
    /\ \A d \in Calls : d < c => calls[d].pc /= "idle"
    /\ ~isCameraLoading
    /\ isCameraLoading' = TRUE
    /\ showCamera' = TRUE
    /\ calls' = [calls EXCEPT ![c] = [pc |-> "getUserMedia", attempt |-> 1]]
    /\ UNCHANGED <<videoStream, live, capturing>>

\* Lines 403-415 with no exception: the stream is handed to the video
\* element when there is one, else the call is over.
AfterLoop(c) ==
    IF videoElement
    THEN /\ calls' = [calls EXCEPT ![c].pc = "play"]
         /\ UNCHANGED isCameraLoading
    ELSE /\ calls' = [calls EXCEPT ![c].pc = "done"]
         /\ isCameraLoading' = FALSE

\* getUserMedia resolved with a stream (lines 396-397), c naming the stream.
GumResolve(c) ==
    /\ UNCHANGED <<rvars, swvars>>
    /\ calls[c].pc = "getUserMedia"
    /\ videoStream' = c
    /\ live' = live \cup {c}
    /\ AfterLoop(c)
    /\ UNCHANGED <<showCamera, capturing>>

\* getUserMedia rejected (lines 398-400): the next constraints are tried;
\* after the last, with videoStream null, startCamera throws (lines 403-408)
\* and handleTakePhoto calls stopCamera (lines 362-367).
GumReject(c) ==
    /\ UNCHANGED <<rvars, swvars>>
    /\ calls[c].pc = "getUserMedia"
    /\ IF calls[c].attempt < Len(constraintOptions)
       THEN /\ calls' = [calls EXCEPT ![c].attempt = @ + 1]
            /\ UNCHANGED <<showCamera, isCameraLoading, videoStream, live>>
       ELSE IF videoStream = NoStream
       THEN /\ stopCamera
            /\ calls' = [calls EXCEPT ![c].pc = "done"]
       ELSE /\ AfterLoop(c)
            /\ UNCHANGED <<showCamera, videoStream, live>>
    /\ UNCHANGED capturing

\* videoElement.play() resolved (lines 412-415).
PlayResolve(c) ==
    /\ UNCHANGED <<rvars, swvars>>
    /\ calls[c].pc = "play"
    /\ isCameraLoading' = FALSE
    /\ calls' = [calls EXCEPT ![c].pc = "done"]
    /\ UNCHANGED <<showCamera, videoStream, live, capturing>>

\* videoElement.play() rejected: handleTakePhoto's catch calls stopCamera.
PlayReject(c) ==
    /\ UNCHANGED <<rvars, swvars>>
    /\ calls[c].pc = "play"
    /\ stopCamera
    /\ calls' = [calls EXCEPT ![c].pc = "done"]
    /\ UNCHANGED capturing

\* The Cancel button of the overlay (line 678).
Cancel ==
    /\ UNCHANGED <<rvars, swvars>>
    /\ showCamera
    /\ stopCamera
    /\ UNCHANGED <<calls, capturing>>

\* The Capture button (line 677, disabled while loading): capturePhoto up to
\* its first await on a video that has frames (lines 432-447).
Capture ==
    /\ UNCHANGED <<rvars, swvars>>
    /\ showCamera
    /\ ~isCameraLoading
    /\ videoStream /= NoStream
    /\ ~capturing
    /\ capturing' = TRUE
    /\ UNCHANGED <<showCamera, isCameraLoading, videoStream, live, calls>>

\* capturePhoto after its awaits (lines 447-455): stopCamera.
CaptureDone ==
    /\ UNCHANGED <<rvars, swvars>>
    /\ capturing
    /\ capturing' = FALSE
    /\ stopCamera
    /\ UNCHANGED calls

CameraNext ==
    \/ \E c \in Calls : TakePhoto(c)
    \/ \E c \in Calls : GumResolve(c)
    \/ \E c \in Calls : GumReject(c)
    \/ \E c \in Calls : PlayResolve(c)
    \/ \E c \in Calls : PlayReject(c)
    \/ Cancel
    \/ Capture
    \/ CaptureDone

Init == RelayInit /\ WorkerInit /\ CameraInit

\* The relay: one request to POST.
Next == RelayNext

Spec == Init /\ [][Next]_vars

\* The finally block follows the try block without suspending.
LiveSpec == Spec /\ WF_vars(Finally)

\* The service worker: its install and up to MaxHandlers fetch events.
SWNext == WorkerNext

SWSpec == Init /\ [][SWNext]_vars

\* A fetch, once it was aborted or failed, and a cache operation, once it was
\* issued, come to their end; a fetch may stay pending for ever.
SWFairness ==
    /\ \A h \in Handlers :
          /\ WF_vars(Timeout(h))
          /\ WF_vars(FallbackMatch(h))
          /\ WF_vars(FallbackRoot(h))
    /\ WF_vars(\E r \in puts : PutComplete(r))

SWLiveSpec == SWSpec /\ SWFairness

\* The cache stores: every step of the two workers that creates or deletes
\* one, and the fetch events up to their caches.open.
GenNext ==
    \/ \E primed \in BOOLEAN : Install(primed)
    \/ ActivateKeys
    \/ ActivateDelete
    \/ OldDispatch
    \/ OldOpen
    \/ \E h \in Handlers : activation = "done" /\ hs[h].pc = "idle" /\ \E req \in Requests : Dispatch(h, req)
    \/ \E h \in Handlers : Open(h)

GenSpec == Init /\ [][GenNext]_vars

\* The camera overlay: up to MaxCalls calls of handleTakePhoto.
CamNext == CameraNext

CamSpec == Init /\ [][CamNext]_vars

-----------------------------------------------------------------------------
(* What the upstream text says, line by line, read off the text alone. *)

\* The text of the bytes delivered so far.
DeliveredText == Decode(<<>>, SubSeq(transcript, 1, pos)).text

\* The lines of a text that a separator ends.
CompleteLines(text) ==
    LET ls == SplitLines(text) IN SubSeq(ls, 1, Len(ls) - 1)

IsSentinel(line) == Trim(line) = DoneLine

\* A data line whose payload is a JSON document.
WellFormed(line) ==
    /\ StartsWith(Trim(line), DataPrefix)
    /\ JsonParses(Trim(Slice(Trim(line), Len(DataPrefix))))

\* A data line, not the sentinel, whose payload JSON.parse rejects.
IsMalformed(line) ==
    /\ StartsWith(Trim(line), DataPrefix)
    /\ ~IsSentinel(line)
    /\ ~WellFormed(line)

\* The delta of a well-formed line; the empty text for any other line.
LineDelta(line) ==
    IF WellFormed(line)
    THEN DeltaContent(Trim(Slice(Trim(line), Len(DataPrefix))))
    ELSE <<>>

\* The non-empty deltas of the lines, in line order.
RECURSIVE Deltas(_)
Deltas(lines) ==
    IF lines = <<>> THEN <<>>
    ELSE (IF LineDelta(Head(lines)) /= <<>> THEN <<LineDelta(Head(lines))>>
          ELSE <<>>) \o Deltas(Tail(lines))

IsPrefix(a, b) == Len(a) <= Len(b) /\ SubSeq(b, 1, Len(a)) = a

Streaming == resp.body = "stream"
\* The flush decode has run.
Flushed ==
    /\ rpc \in {"finally", "done"}
    /\ ~thrown
    /\ NeedsFlush(buffer, streamDone)

\* The decode loop on the whole transcript as one chunk, then the flush.
OneChunk(t) ==
    LET f == IF t = <<>>
             THEN [buffer |-> <<>>, chunks |-> <<>>, done |-> FALSE]
             ELSE Feed(<<>>, <<>>, t)
    IN [out |-> EncodeAll(f.chunks) \o
                EncodeAll(FlushChunks(f.buffer, f.done)),
        done |-> f.done]

-----------------------------------------------------------------------------
(* Claims *)

\* C1: chunk-split invariance.  When the relay has run its decode loop to the
\* end over the transcript cut into any chunks, the enqueued fragments and
\* the terminated flag are those of feeding the transcript as one chunk.
C1_SplitInvariance ==
    (Streaming /\ rpc = "done" /\ ~thrown) =>
        /\ out = OneChunk(transcript).out
        /\ streamDone = OneChunk(transcript).done

\* The index of the first sentinel among the lines, 0 when there is none.
FirstSentinel(lines) ==
    IF \E i \in 1..Len(lines) : IsSentinel(lines[i])
    THEN CHOOSE i \in 1..Len(lines) :
            /\ IsSentinel(lines[i])
            /\ \A j \in 1..(i - 1) : ~IsSentinel(lines[j])
    ELSE 0

\* C2: a feed that holds the sentinel line followed by further complete lines
\* returns done = true and exactly the fragments of the data records before
\* the sentinel.
C2_SentinelStopsFeed ==
    LET lines == CompleteLines(result.fed)
        k == FirstSentinel(lines)
    IN (~result.flush /\ k > 0 /\ k < Len(lines)) =>
          /\ result.done
          /\ result.chunks = Deltas(SubSeq(lines, 1, k - 1))

\* C3: malformed-record tolerance.  The fragments enqueued are exactly the
\* non-empty deltas of the well-formed data lines decoded so far, in every
\* feed: a blank line, a line without the prefix or a line whose payload
\* does not parse neither adds a fragment nor loses a later one.
C3_MalformedTolerated ==
    Streaming =>
        out = EncodeAll(Deltas(IF Flushed THEN SplitLines(DeliveredText)
                               ELSE CompleteLines(DeliveredText)))

\* A feed of two complete lines, a malformed one and then a well-formed one
\* whose delta is the feed's only fragment.
C3_Witness ==
    LET lines == CompleteLines(result.fed) IN
    /\ rpc = "reading"
    /\ Len(lines) = 2
    /\ IsMalformed(lines[1])
    /\ LineDelta(lines[2]) /= <<>>
    /\ result.chunks = <<LineDelta(lines[2])>>
    /\ out = EncodeAll(result.chunks)

\* C4: ordering.  The fragments enqueued so far are, in order and without a
\* repeat, the first of the deltas of the upstream lines delivered so far,
\* and the body the caller reads is their concatenation.
C4_OrderPreserved ==
    Streaming =>
        /\ IsPrefix(out, EncodeAll(Deltas(SplitLines(DeliveredText))))
        /\ IsPrefix(Concat(out),
                    Concat(EncodeAll(Deltas(SplitLines(DeliveredText)))))

\* Two different fragments from two different feeds, in upstream order.
C4_Witness ==
    /\ rpc = "done"
    /\ ~thrown
    /\ Len(out) = 2
    /\ out[1] /= out[2]
    /\ Len(result.chunks) = 1
    /\ out[2] = Encode(result.chunks[1])

\* C5: on every exit path the output stream is closed, once, and nothing is
\* enqueued after the close.
C5_ClosedOnce ==
    /\ [](closes <= 1)
    /\ [](Streaming /\ rpc /= "reading" => rpc \in {"finally", "done"})
    /\ [](Streaming /\ rpc = "done" => closes = 1)
    /\ [][closes >= 1 => out' = out]_vars
    /\ ((rpc = "finally") ~> (rpc = "done" /\ closes = 1))

\* The upstream read threw after a fragment was enqueued, and the output is
\* closed.
C5_Witness ==
    /\ rpc = "done"
    /\ thrown
    /\ closes = 1
    /\ out /= <<>>

\* C6: the end-of-stream flush.  Leaving the loop with no sentinel seen and a
\* well-formed unterminated record pending, the relay enqueues that record's
\* delta once, after the earlier fragments and before the close; with the
\* sentinel seen or a blank remainder the flush enqueues nothing.
C6_FlushStep ==
    [][(rpc = "reading" /\ rpc' = "finally" /\ ~thrown') =>
         /\ closes = 0 /\ closes' = 0
         /\ out' = out \o
               (IF pos' > pos THEN EncodeAll(result'.chunks) ELSE <<>>) \o
               (IF ~streamDone' /\ LineDelta(buffer') /= <<>>
                THEN <<Encode(LineDelta(buffer'))>> ELSE <<>>)]_vars

\* The stream ended without a sentinel, the pending record was flushed after
\* an earlier fragment.
C6_Witness ==
    /\ rpc = "done"
    /\ ~thrown
    /\ ~streamDone
    /\ closes = 1
    /\ LineDelta(buffer) /= <<>>
    /\ Len(out) = 2
    /\ out[2] = Encode(LineDelta(buffer))

UpstreamFailed ==
    /\ fetches = 1
    /\ rpc /= "fetching"
    /\ api = NoApi \/ ~Ok(api)

\* C8: every failure of the upstream call ends in a structured error
\* response with the upstream status (when there is one) and upstream's JSON
\* error body or the generic one; none escapes as an exception.
C8_UpstreamFailureStructured ==
    UpstreamFailed =>
        /\ rpc = "done"
        /\ resp.ctype = "application/json"
        /\ resp.body \in {"upstream", "Upstream request failed."}
        /\ api /= NoApi => resp.status = api.status

\* C9, as claimed: no handler and no relay request issues a second network
\* fetch.
C9_SingleAttempt ==
    /\ fetches <= 1
    /\ \A h \in Handlers : hs[h].fetches <= 1

\* C9, amended: the relay, cacheFirst and networkFirst fetch at most once per
\* request; staleWhileRevalidate fetches a second time only when it found no
\* cached entry and its first fetch rejected, and never a third time.
C9_SingleAttemptButSwrFallback ==
    /\ fetches <= 1
    /\ \A h \in Handlers :
          \/ hs[h].fetches <= 1
          \/ /\ hs[h].strategy = "staleWhileRevalidate"
             /\ hs[h].fetches = 2
             /\ ~hs[h].hit
             /\ hs[h].fails >= 1

\* staleWhileRevalidate fetched again after its first fetch rejected.
C9_Witness ==
    \E h \in Handlers :
        /\ hs[h].strategy = "staleWhileRevalidate"
        /\ hs[h].fetches = 2
        /\ hs[h].pc = "done"

\* A GET without a range header for an http or https URL.
PassesFilter(req) ==
    /\ req.method = "GET"
    /\ ~req.range
    /\ Protocol(req.url) \in {"http:", "https:"}

\* C10: the fetch listener hands a request to a strategy only if it is a GET
\* without a range header over http(s); for any other request it calls no
\* strategy, touches no cache entry, fetches nothing and answers nothing.
C10_InterceptionFilter ==
    \A h \in Handlers :
        hs[h].pc /= "idle" =>
            /\ hs[h].strategy /= "none" <=> PassesFilter(hs[h].req)
            /\ ~PassesFilter(hs[h].req) =>
                  /\ hs[h].pc = "passthrough"
                  /\ hs[h].resp = NoResponse
                  /\ hs[h].fetches = 0
                  /\ hs[h].reads = 0
                  /\ hs[h].puts = 0

\* A range request and a POST were both left to the network, while the cache
\* holds what the install stored.
C10_Witness ==
    /\ \E h \in Handlers : hs[h].pc = "passthrough" /\ hs[h].req.range
    /\ \E h \in Handlers : hs[h].pc = "passthrough" /\ hs[h].req.method = "POST"
    /\ cache[AssetUrl] /= NoResponse

\* Where the handler of a request can stand, by the strategy that runs it.
StrategyPcs(strategy) ==
    IF strategy = "cacheFirst"
    THEN {"open", "match", "cf_fetch", "done", "failed"}
    ELSE IF strategy = "networkFirst"
    THEN {"open", "nf_fetch", "nf_match", "nf_root", "done"}
    ELSE IF strategy = "staleWhileRevalidate"
    THEN {"open", "match", "swr_background", "swr_wait", "swr_last", "done",
          "failed"}
    ELSE {"idle", "passthrough"}

InManifest(req) == req.url \in {AssetUrl}
SameOriginNavigation(req) ==
    req.mode = "navigate" /\ Origin(req.url) = "https://app"

\* C11: every intercepted request is run by one strategy, the first that
\* matches: cacheFirst for a URL of the manifest (a same-origin navigation
\* included), networkFirst for any other same-origin navigation,
\* staleWhileRevalidate for the rest (cross-origin navigations included); the
\* handler only ever stands in steps of that strategy.
C11_Classification ==
    \A h \in Handlers :
        (hs[h].pc /= "idle" /\ PassesFilter(hs[h].req)) =>
            /\ InManifest(hs[h].req) => hs[h].strategy = "cacheFirst"
            /\ (~InManifest(hs[h].req) /\ SameOriginNavigation(hs[h].req)) =>
                  hs[h].strategy = "networkFirst"
            /\ (~InManifest(hs[h].req) /\ ~SameOriginNavigation(hs[h].req)) =>
                  hs[h].strategy = "staleWhileRevalidate"
            /\ hs[h].pc \in StrategyPcs(hs[h].strategy)

\* A navigation to a manifest URL answered by cacheFirst, next to a
\* cross-origin navigation answered by staleWhileRevalidate.
C11_Witness ==
    /\ \E h \in Handlers :
          /\ InManifest(hs[h].req) /\ SameOriginNavigation(hs[h].req)
          /\ hs[h].strategy = "cacheFirst" /\ hs[h].pc = "done"
    /\ \E h \in Handlers :
          /\ hs[h].req.mode = "navigate" /\ hs[h].req.url = ExtUrl
          /\ hs[h].strategy = "staleWhileRevalidate" /\ hs[h].pc = "done"

\* The handler ran cacheFirst and has looked its request up.
CacheFirstLookedUp(h) ==
    /\ hs[h].strategy = "cacheFirst"
    /\ hs[h].pc \in {"cf_fetch", "done", "failed"}

\* C12: a cacheFirst request that found no entry and was answered made one
\* fetch and one cache write; one that found the entry made no fetch and no
\* write and returned the entry; and a request dispatched after an identical
\* one was answered finds the entry.
C12_CacheFirstOnce ==
    \A h \in Handlers :
        CacheFirstLookedUp(h) =>
            /\ (hs[h].pc = "done" /\ ~hs[h].hit) =>
                  hs[h].fetches = 1 /\ hs[h].puts = 1
            /\ hs[h].hit =>
                  /\ hs[h].fetches = 0 /\ hs[h].puts = 0
                  /\ hs[h].resp.kind = "basic"
                  /\ hs[h].resp.url = hs[h].req.url
            /\ \A g \in hs[h].prior :
                  (hs[g].req = hs[h].req /\ hs[g].pc = "done") => hs[h].hit

\* C13: a networkFirst request whose fetch is pending is answered in the end,
\* even when the fetch never settles (the timeout ends it); after a failed
\* or timed-out fetch the answer is the entry of the request when there is
\* one, the root entry is only looked up when there is none, and the answer
\* is then the root entry when there is one and Response.error() otherwise.
C13_NetworkFirstFallback ==
    /\ \A h \in Handlers : (hs[h].pc = "nf_fetch") ~> (hs[h].pc = "done")
    /\ [][\A h \in Handlers :
            /\ (hs[h].pc = "nf_fetch" /\ hs'[h].pc /= "nf_fetch") =>
                  hs'[h].pc \in {"done", "nf_match"}
            /\ (hs[h].pc = "nf_match" /\ hs'[h].pc /= "nf_match") =>
                  IF cache[hs[h].req.url] /= NoResponse
                  THEN /\ hs'[h].pc = "done"
                       /\ hs'[h].resp = cache[hs[h].req.url]
                  ELSE hs'[h].pc = "nf_root"
            /\ (hs[h].pc = "nf_root" /\ hs'[h].pc /= "nf_root") =>
                  /\ hs'[h].pc = "done"
                  /\ hs'[h].resp = IF cache[RootUrl] /= NoResponse
                                   THEN cache[RootUrl]
                                   ELSE ErrorResponse]_vars

\* A navigation whose fetch failed or timed out, with no entry of its own,
\* answered with the root entry.
C13_Witness ==
    \E h \in Handlers :
        /\ hs[h].strategy = "networkFirst"
        /\ hs[h].req.url = PageUrl
        /\ hs[h].fails = 1
        /\ hs[h].pc = "done"
        /\ cache[PageUrl] = NoResponse
        /\ hs[h].resp.kind = "basic"
        /\ hs[h].resp = cache[RootUrl]

\* The handler ran staleWhileRevalidate and found an entry.
StaleHit(h) == hs[h].strategy = "staleWhileRevalidate" /\ hs[h].hit

\* C14: staleWhileRevalidate, finding an entry, answers with it in the step
\* of the lookup, its fetch still pending; the answer stands whatever the
\* fetch does, the handler never fails, and a rejection of the fetch leaves
\* the cache and the pending writes as they are.
C14_StaleServedAtOnce ==
    /\ [](\A h \in Handlers :
            StaleHit(h) =>
                /\ hs[h].pc \in {"swr_background", "done"}
                /\ hs[h].resp.kind = "basic"
                /\ hs[h].resp.url = hs[h].req.url
                /\ hs[h].resp.by /= h)
    /\ [][\A h \in Handlers :
            /\ (/\ hs[h].strategy = "staleWhileRevalidate"
                /\ hs[h].pc = "match" /\ hs'[h].pc /= "match"
                /\ cache[hs[h].req.url] /= NoResponse) =>
                  /\ hs'[h].resp = cache[hs[h].req.url]
                  /\ hs'[h].pc = "swr_background"
            /\ StaleHit(h) => hs'[h].resp = hs[h].resp
            /\ (StaleHit(h) /\ hs'[h].fails > hs[h].fails) =>
                  /\ hs'[h].pc = "done"
                  /\ cache' = cache
                  /\ puts' = puts]_vars

\* An entry served by staleWhileRevalidate whose background fetch then
\* rejected, the entry still in the cache.
C14_Witness ==
    \E h \in Handlers :
        /\ StaleHit(h)
        /\ hs[h].fails = 1
        /\ hs[h].pc = "done"
        /\ hs[h].resp = cache[hs[h].req.url]

\* C15: once the activate listener is over, no store but CACHE_NAME exists,
\* in every later state, a fetch handler of the superseded worker still
\* running included.
C15_OneLiveGeneration == activation = "done" => stores \subseteq {CACHE_NAME}

\* C16: when the relay has closed its output stream, the upstream body has
\* been read to its end, has failed, or was cancelled.
C16_UpstreamReleased ==
    closes >= 1 => reader \in {"ended", "errored", "cancelled"}

\* C17: every fetch of a handler that resolved was followed by a cache.put
\* of its response: when the handler is over, each of its fetches has either
\* failed or been stored.
C17_EveryFetchStored ==
    \A h \in Handlers :
        hs[h].pc \in {"done", "failed"} =>
            hs[h].puts + hs[h].fails = hs[h].fetches

\* What the cache holds for a request.
Entry(req) == IF req.url \in Urls THEN cache[req.url] ELSE NoResponse

\* The background fetch of a staleWhileRevalidate hit has resolved.
Revalidated(h) == StaleHit(h) /\ hs[h].pc = "done" /\ hs[h].fails = 0

\* The cache.put of that fetch's response is issued and not yet written.
PendingRefresh(h) ==
    /\ Revalidated(h)
    /\ \E r \in puts : r.by = h /\ r.url = hs[h].req.url

RECURSIVE AfterLastLF(_)
AfterLastLF(text) ==
    IF text = <<>> \/ text[Len(text)] = "\n" THEN <<>>
    ELSE Append(AfterLastLF(SubSeq(text, 1, Len(text) - 1)), text[Len(text)])

C19_FlushWitness == result.flush /\ result.fed /= <<>> /\ rpc = "done"

\* C20: a response of the relay with a 2xx status is the text/plain fragment
\* stream, and a response with a JSON error body has a status outside 2xx.
C20_StatusBodyConsistent ==
    resp /= NoResp =>
        /\ resp.status \in 200..299 =>
              resp.body = "stream" /\ resp.ctype = "text/plain; charset=utf-8"
        /\ resp.ctype = "application/json" => resp.status \notin 200..299

\* The URLs of the offline shell: a navigation's own URL and the root path.
ShellUrls == {PageUrl, RootUrl}

\* C21: no write of networkFirst replaces a successful (ok) entry of a
\* navigation's URL or of the root path by a response that is not ok.
C21_ShellNeverDegraded ==
    [][\A u \in ShellUrls :
          (/\ cache[u].kind = "basic"
           /\ cache[u].ok
           /\ cache'[u] /= cache[u]
           /\ cache'[u].by \in Handlers
           /\ hs[cache'[u].by].strategy = "networkFirst") =>
              cache'[u].ok]_vars

\* No startCamera is suspended.
NoStartPending == \A c \in Calls : calls[c].pc \in {"idle", "done"}

\* C22: with the overlay hidden and no startCamera pending, videoStream is
\* null and no stream has running tracks.
C22_CameraNeverLeaked ==
    (~showCamera /\ NoStartPending) => (videoStream = NoStream /\ live = {})

=============================================================================
